---- MODULE Spec2Model ----
(***************************************************************************)
(* Chatly WebSocket relay (src/websocket-server.js): the four in-memory    *)
(* tables (userSockets, onlineUsers, userConversations, pendingDeliveries),*)
(* the socket.io connections with their room subscriptions, the pending    *)
(* 100 ms "delivered" timers, and one action per event handler.            *)
(*                                                                         *)
(* Node runs every handler to completion, so each handler is one atomic    *)
(* action.  Time is counted in units of CLEANUP_INTERVAL (5 minutes); a     *)
(* presence record holds its idle time now - lastSeen instead of lastSeen,  *)
(* which is all the Sweeper reads of the clock and keeps the state finite   *)
(* over unboundedly many Sweeper runs.                                      *)
(***************************************************************************)
EXTENDS Integers, Sequences, FiniteSets, TLC

\* ---------------------------------------------------------------- bounds
\* Identities a client may claim, conversation ids and message ids a client
\* may send.  The three id spaces are disjoint (a conversation room is never
\* named like a user's personal room).
Users == {"A", "B"}
Convs == {"c1", "c2"}
Msgs == {"m1"}

\* The ids of the connections accepted over the run, given out in order; an
\* id is never reused.
SocketIds == {1, 2}
\* Largest number of setTimeout callbacks pending at once.
MaxTimers == 1

\* ------------------------------------------------------ program constants
\* src/websocket-server.js:34-35, in units of 5 minutes.
CLEANUP_INTERVAL == 1
STALE_TIMEOUT == 2

NoUser == "-"
NoSocket == 0

VARIABLES
    connected,          \* ids of the sockets currently connected
    nextId,             \* id the next accepted connection gets
    socketUserId,       \* socket.userId of each connected socket (NoUser: unset)
    rooms,              \* conversation rooms each connected socket has joined
    userSockets,        \* Map userId -> socketId
    onlineUsers,        \* Map userId -> { socketId, idle }, idle = now - lastSeen
    userConversations,  \* Map userId -> Set of conversationIds
    pendingDeliveries,  \* Map conversationId -> Map messageId -> Set of userIds
    timers,             \* pending setTimeout callbacks, in firing order
    emitted,            \* what the last handler emitted, in order
    last                \* the last handler that ran and its arguments

vars == <<connected, nextId, socketUserId, rooms, userSockets, onlineUsers,
          userConversations, pendingDeliveries, timers, emitted, last>>

tables == <<userSockets, onlineUsers, userConversations, pendingDeliveries>>

\* ------------------------------------------------------------ Map helpers
MapSet(f, k, v) == [x \in DOMAIN f \cup {k} |-> IF x = k THEN v ELSE f[x]]
MapDelete(f, k) == [x \in DOMAIN f \ {k} |-> f[x]]
MapHas(f, k) == k \in DOMAIN f
EmptyMap == [x \in {} |-> x]

RECURSIVE SeqOfSet(_)
\* The elements of a finite set in one fixed order.
SeqOfSet(S) ==
    IF S = {} THEN <<>>
    ELSE LET x == CHOOSE y \in S : TRUE IN <<x>> \o SeqOfSet(S \ {x})

RECURSIVE Flatten(_)
Flatten(ss) == IF ss = <<>> THEN <<>> ELSE Head(ss) \o Flatten(Tail(ss))

Range(s) == {s[i] : i \in 1..Len(s)}

\* The participants arrays of a message:send: every array of at most two
\* identities, repeated elements included.
ParticipantLists ==
    UNION {[1..n -> Users] : n \in {0, 1, 2}}

\* ------------------------------------------------------------- emissions
\* io.sockets.adapter.rooms.get(c): the connected sockets subscribed to c.
RoomSockets(c) == {s \in connected : c \in rooms[s]}

Emission(ev, to, room, sock, id, status, rcpt) ==
    [ev |-> ev, to |-> to, room |-> room, sock |-> sock, id |-> id,
     status |-> status, rcpt |-> rcpt]

\* io.to(conversationId).emit(ev, ...), the room holding the sockets rcpt
ToRoom(ev, c, id, status, rcpt) ==
    Emission(ev, "room", c, NoSocket, id, status, rcpt)
\* io.to(socketId).emit(ev, ...): the room named by a socket id holds that
\* socket while it is connected, and nothing afterwards.
ToSocket(ev, sid, id, status) ==
    Emission(ev, "socket", "-", sid, id, status, {sid} \cap connected)
\* socket.emit(ev, ...)
ToSelf(ev, s) == Emission(ev, "self", "-", s, "-", "-", {s})
\* socket.broadcast.emit(ev, ...)
Broadcast(ev, s, id, status) ==
    Emission(ev, "broadcast", "-", s, id, status, connected \ {s})
\* io.emit(ev, ...) from the disconnect handler of s, which has left already
ToAll(ev, s, id, status) ==
    Emission(ev, "all", "-", NoSocket, id, status, connected \ {s})

Delivered(c, m, rcpt) == ToRoom("message:status", c, m, "delivered", rcpt)

\* The record of the last handler: its event, its socket, its argument (a
\* user id or a conversation id) and a count n that the handler's comment
\* explains.
Last(op, s, arg, n) == [op |-> op, sock |-> s, arg |-> arg, n |-> n]

\* ------------------------------------------------- pending reconciliation
\* Mutant of DeliveredMessages: a message is reported only when the removal
\* empties its awaiting set.
DeliveredMessages_OnlyEmptied(messages, userId) ==
    {m \in DOMAIN messages : messages[m] = {userId}}

\* The messages of one conversation's map whose awaiting set holds userId
\* (deliveredMessages).
DeliveredMessages(messages, userId) ==
    {m \in DOMAIN messages : userId \in messages[m]}

\* Mutant of RemoveUser: the emptied message entries are kept.
RemoveUser_KeepEmpty(messages, userId) ==
    [m \in DOMAIN messages |-> messages[m] \ {userId}]

\* One conversation's map after the loop over its messages: userId is
\* deleted from every awaiting set, and a message whose set became empty by
\* that deletion is deleted.
RemoveUser(messages, userId) ==
    [m \in {x \in DOMAIN messages :
              ~(userId \in messages[x] /\ messages[x] \ {userId} = {})}
        |-> messages[m] \ {userId}]

\* Mutant of ProcessedLedger: the scan stops after one conversation.
ProcessedLedger_OneConversation(pd, userId) ==
    IF DOMAIN pd = {} THEN pd
    ELSE LET c == CHOOSE x \in DOMAIN pd : TRUE
             messages == RemoveUser(pd[c], userId)
         IN IF DOMAIN messages = {} THEN MapDelete(pd, c)
            ELSE MapSet(pd, c, messages)

\* processPendingDeliveries(userId): the ledger afterwards.
ProcessedLedger(pd, userId) ==
    [c \in {x \in DOMAIN pd : DOMAIN RemoveUser(pd[x], userId) # {}}
        |-> RemoveUser(pd[c], userId)]

\* Mutant of CheckedLedger: the join reconciles every conversation.
CheckedLedger_AllConversations(pd, conversationId, userId) ==
    ProcessedLedger(pd, userId)

\* Mutant of CheckedLedger: a conversation whose last message was deleted
\* keeps its (empty) map.
CheckedLedger_KeepEmptyConversation(pd, conversationId, userId) ==
    IF ~MapHas(pd, conversationId) THEN pd
    ELSE MapSet(pd, conversationId, RemoveUser(pd[conversationId], userId))

\* checkPendingDeliveriesForConversation(conversationId, userId): the ledger
\* afterwards.
CheckedLedger(pd, conversationId, userId) ==
    IF ~MapHas(pd, conversationId) THEN pd
    ELSE LET messages == RemoveUser(pd[conversationId], userId)
         IN IF DOMAIN messages = {} THEN MapDelete(pd, conversationId)
            ELSE MapSet(pd, conversationId, messages)

\* checkPendingDeliveriesForConversation: the statuses it emits to the
\* conversation's room, which holds the sockets rcpt.
CheckedEmits(pd, conversationId, userId, rcpt) ==
    IF ~MapHas(pd, conversationId) THEN <<>>
    ELSE LET ms == SeqOfSet(DeliveredMessages(pd[conversationId], userId))
         IN [i \in 1..Len(ms) |-> Delivered(conversationId, ms[i], rcpt)]

\* processPendingDeliveries: the statuses it emits, conversation by
\* conversation.
ProcessedEmits(pd, userId) ==
    LET cs == SeqOfSet(DOMAIN pd)
    IN Flatten([i \in 1..Len(cs) |->
                  CheckedEmits(pd, cs[i], userId, RoomSockets(cs[i]))])

\* ------------------------------------------------------------------ Init
Init ==
    /\ connected = {}
    /\ nextId = 1
    /\ socketUserId = EmptyMap
    /\ rooms = EmptyMap
    /\ userSockets = EmptyMap
    /\ onlineUsers = EmptyMap
    /\ userConversations = EmptyMap
    /\ pendingDeliveries = EmptyMap
    /\ timers = <<>>
    /\ emitted = <<>>
    /\ last = Last("init", NoSocket, "-", 0)

\* --------------------------------------------------------------- actions
\* io.on("connection"): a new socket, in no conversation room, userId unset.
Connection ==
    /\ nextId \in SocketIds
    /\ connected' = connected \cup {nextId}
    /\ nextId' = nextId + 1
    /\ socketUserId' = MapSet(socketUserId, nextId, NoUser)
    /\ rooms' = MapSet(rooms, nextId, {})
    /\ emitted' = <<>>
    /\ last' = Last("connection", nextId, "-", 0)
    /\ UNCHANGED <<tables, timers>>

\* Mutant of UserOnline: an identity that is registered keeps its socket.
UserOnline_KeepFirst(s, userId) ==
    /\ s \in connected
    /\ userSockets' = IF MapHas(userSockets, userId) THEN userSockets
                      ELSE MapSet(userSockets, userId, s)
    /\ socketUserId' = MapSet(socketUserId, s, userId)
    /\ onlineUsers' = MapSet(onlineUsers, userId,
                             [socketId |-> userSockets'[userId], idle |-> 0])
    /\ userConversations' =
         IF MapHas(userConversations, userId) THEN userConversations
         ELSE MapSet(userConversations, userId, {})
    /\ pendingDeliveries' = ProcessedLedger(pendingDeliveries, userId)
    /\ emitted' = <<ToSelf("users:online-list", s),
                    Broadcast("user:status", s, userId, "online")>>
                  \o ProcessedEmits(pendingDeliveries, userId)
    /\ last' = Last("user:online", s, userId,
                    IF MapHas(userSockets, userId) /\ userSockets[userId] # s
                    THEN 1 ELSE 0)
    /\ UNCHANGED <<connected, nextId, rooms, timers>>

\* socket.on("user:online", (userId) => ...).  last.n: 1 if the registry
\* mapped userId to another socket, which this handler overwrites.
UserOnline(s, userId) ==
    /\ s \in connected
    /\ userSockets' = MapSet(userSockets, userId, s)
    /\ socketUserId' = MapSet(socketUserId, s, userId)
    /\ onlineUsers' = MapSet(onlineUsers, userId, [socketId |-> s, idle |-> 0])
    /\ userConversations' =
         IF MapHas(userConversations, userId) THEN userConversations
         ELSE MapSet(userConversations, userId, {})
    /\ pendingDeliveries' = ProcessedLedger(pendingDeliveries, userId)
    /\ emitted' = <<ToSelf("users:online-list", s),
                    Broadcast("user:status", s, userId, "online")>>
                  \o ProcessedEmits(pendingDeliveries, userId)
    /\ last' = Last("user:online", s, userId,
                    IF MapHas(userSockets, userId) /\ userSockets[userId] # s
                    THEN 1 ELSE 0)
    /\ UNCHANGED <<connected, nextId, rooms, timers>>

\* socket.on("ping", ...)
Ping(s) ==
    /\ s \in connected
    /\ onlineUsers' =
         IF socketUserId[s] # NoUser /\ MapHas(onlineUsers, socketUserId[s])
         THEN MapSet(onlineUsers, socketUserId[s],
                     [onlineUsers[socketUserId[s]] EXCEPT !.idle = 0])
         ELSE onlineUsers
    /\ emitted' = <<ToSelf("pong", s)>>
    /\ last' = Last("ping", s, "-", 0)
    /\ UNCHANGED <<connected, nextId, socketUserId, rooms, userSockets,
                   userConversations, pendingDeliveries, timers>>

\* socket.on("conversation:join", (conversationId) => ...)
ConversationJoin(s, conversationId) ==
    /\ s \in connected
    /\ rooms' = [rooms EXCEPT ![s] = @ \cup {conversationId}]
    /\ userConversations' =
         IF socketUserId[s] # NoUser /\ MapHas(userConversations, socketUserId[s])
         THEN [userConversations EXCEPT ![socketUserId[s]] = @ \cup {conversationId}]
         ELSE userConversations
    /\ pendingDeliveries' =
         CheckedLedger(pendingDeliveries, conversationId, socketUserId[s])
    /\ emitted' = CheckedEmits(pendingDeliveries, conversationId, socketUserId[s],
                              RoomSockets(conversationId) \cup {s})
    /\ last' = Last("conversation:join", s, conversationId, 0)
    /\ UNCHANGED <<connected, nextId, socketUserId, userSockets, onlineUsers,
                   timers>>

\* socket.on("conversation:leave", (conversationId) => ...).  last.n: 1 if
\* the socket was subscribed.
ConversationLeave(s, conversationId) ==
    /\ s \in connected
    /\ rooms' = [rooms EXCEPT ![s] = @ \ {conversationId}]
    /\ userConversations' =
         IF socketUserId[s] # NoUser /\ MapHas(userConversations, socketUserId[s])
         THEN [userConversations EXCEPT ![socketUserId[s]] = @ \ {conversationId}]
         ELSE userConversations
    /\ emitted' = <<>>
    /\ last' = Last("conversation:leave", s, conversationId,
                    IF conversationId \in rooms[s] THEN 1 ELSE 0)
    /\ UNCHANGED <<connected, nextId, socketUserId, userSockets, onlineUsers,
                   pendingDeliveries, timers>>

\* ------------------------------------------------------------ message:send
\* data = { _id, conversationId, participants }.  A participants field that
\* is missing or no array behaves like the empty array.
SendData ==
    [id : Msgs, conversationId : Convs, participants : ParticipantLists]

\* Is participant p, met by the forEach of socket s, looked up in the
\* registry (line 161 skips the sender) ...
Considered(s, p) == p # socketUserId[s]
\* ... and found there (line 165)?
Reachable(s, p) == Considered(s, p) /\ MapHas(userSockets, p)

\* Lines 145-155 and 166: deliveredToAnyoneOnline after the room scan and
\* the participant loop.
DeliveredToAnyoneOnline(s, data) ==
    \/ RoomSockets(data.conversationId) \ {s} # {}
    \/ \E p \in Range(data.participants) : Reachable(s, p)

\* Mutant of OfflineParticipants: the loop does not skip the sender.
OfflineParticipants_WithSender(s, data) ==
    {p \in Range(data.participants) : ~MapHas(userSockets, p)}

\* Lines 173-183: the participants the loop adds to the ledger.
OfflineParticipants(s, data) ==
    {p \in Range(data.participants) : Considered(s, p) /\ ~MapHas(userSockets, p)}

\* The ledger after the participant loop.
SentLedger(pd, s, data) ==
    LET off  == OfflineParticipants(s, data)
        c    == data.conversationId
        conv == IF MapHas(pd, c) THEN pd[c] ELSE EmptyMap
        old  == IF MapHas(conv, data.id) THEN conv[data.id] ELSE {}
    IN IF off = {} THEN pd
       ELSE MapSet(pd, c, MapSet(conv, data.id, old \cup off))

\* Mutant of SendEmits: the direct emission is made whether or not the
\* registered socket is in the room.
SendEmits_AlwaysDirect(s, data) ==
    LET direct == SelectSeq(data.participants, LAMBDA p : Reachable(s, p))
    IN <<ToRoom("message:new", data.conversationId, data.id, "-",
                RoomSockets(data.conversationId))>>
       \o [i \in 1..Len(direct) |->
             ToSocket("message:new", userSockets[direct[i]], data.id, "-")]

\* Lines 142 and 170-172: the room broadcast, then one direct message:new
\* per array element whose registered socket is not in the room.
SendEmits(s, data) ==
    LET direct == SelectSeq(data.participants,
                    LAMBDA p : /\ Reachable(s, p)
                               /\ userSockets[p] \notin RoomSockets(data.conversationId))
    IN <<ToRoom("message:new", data.conversationId, data.id, "-",
                RoomSockets(data.conversationId))>>
       \o [i \in 1..Len(direct) |->
             ToSocket("message:new", userSockets[direct[i]], data.id, "-")]

\* Mutant of ScheduledTimers: one setTimeout per socket of the room.
ScheduledTimers_PerRoomSocket(s, data) ==
    IF DeliveredToAnyoneOnline(s, data)
    THEN [i \in 1..Cardinality(RoomSockets(data.conversationId) \cup {s}) |->
            [conversationId |-> data.conversationId, messageId |-> data.id]]
    ELSE <<>>

\* Lines 188-195: the setTimeout the handler schedules.
ScheduledTimers(s, data) ==
    IF DeliveredToAnyoneOnline(s, data)
    THEN <<[conversationId |-> data.conversationId, messageId |-> data.id]>>
    ELSE <<>>

\* socket.on("message:send", (data) => ...).  last.n: data.participants.length
MessageSend(s, data) ==
    /\ s \in connected
    /\ ScheduledTimers(s, data) # <<>> => Len(timers) < MaxTimers
    /\ pendingDeliveries' = SentLedger(pendingDeliveries, s, data)
    /\ timers' = timers \o ScheduledTimers(s, data)
    /\ emitted' = SendEmits(s, data)
    /\ last' = Last("message:send", s, data.conversationId, Len(data.participants))
    /\ UNCHANGED <<connected, nextId, socketUserId, rooms, userSockets,
                   onlineUsers, userConversations>>

\* The setTimeout callback of lines 189-194; equal delays fire in the order
\* they were scheduled.
TimerFire ==
    /\ timers # <<>>
    /\ timers' = Tail(timers)
    /\ emitted' = <<Delivered(Head(timers).conversationId, Head(timers).messageId,
                              RoomSockets(Head(timers).conversationId))>>
    /\ last' = Last("timeout", NoSocket, Head(timers).conversationId, 0)
    /\ UNCHANGED <<connected, nextId, socketUserId, rooms, tables>>

\* The status each direct status event relays.
StatusEvents == {"message:delivered", "message:read"}

StatusOf(ev) == IF ev = "message:delivered" THEN "delivered" ELSE "read"

\* socket.on("message:delivered" | "message:read",
\*           ({ messageId, conversationId }) => ...)
MessageStatus(s, ev, conversationId, messageId) ==
    /\ s \in connected
    /\ emitted' = <<ToRoom("message:status", conversationId, messageId,
                           StatusOf(ev), RoomSockets(conversationId))>>
    /\ last' = Last(ev, s, conversationId, 0)
    /\ UNCHANGED <<connected, nextId, socketUserId, rooms, tables, timers>>

\* The message ids a client may list in a messages:mark-read, and the lists
\* of at most two of them, repeated elements included.
ReadIds == {"m1", "m2"}

MarkReadLists == UNION {[1..n -> ReadIds] : n \in {0, 1, 2}}

\* Mutant of MarkReadEmits: an empty list emits no unread-count notice.
MarkReadEmits_SkipsEmpty(s, messageIds, conversationId) ==
    IF messageIds = <<>> THEN <<>>
    ELSE [i \in 1..Len(messageIds) |->
            ToRoom("message:status", conversationId, messageIds[i], "read",
                   RoomSockets(conversationId))]
         \o <<ToRoom("conversation:unread-updated", conversationId,
                     socketUserId[s], "-", RoomSockets(conversationId))>>

\* Lines 213-224: one read status per element of messageIds, then the
\* unread-count notice, which carries socket.userId.
MarkReadEmits(s, messageIds, conversationId) ==
    [i \in 1..Len(messageIds) |->
        ToRoom("message:status", conversationId, messageIds[i], "read",
               RoomSockets(conversationId))]
    \o <<ToRoom("conversation:unread-updated", conversationId,
                socketUserId[s], "-", RoomSockets(conversationId))>>

\* socket.on("messages:mark-read", ({ messageIds, conversationId }) => ...).
\* last.n: messageIds.length
MarkRead(s, messageIds, conversationId) ==
    /\ s \in connected
    /\ emitted' = MarkReadEmits(s, messageIds, conversationId)
    /\ last' = Last("messages:mark-read", s, conversationId, Len(messageIds))
    /\ UNCHANGED <<connected, nextId, socketUserId, rooms, tables, timers>>

\* The events that relay one payload about a message to its conversation.
RelayEvents == {"message:edit", "message:delete", "message:reaction"}

\* The event each of them emits.
RelayForward(ev) ==
    CASE ev = "message:edit" -> "message:edited"
      [] ev = "message:delete" -> "message:deleted"
      [] ev = "message:reaction" -> "message:reaction-update"

\* socket.on("message:edit" | "message:delete" | "message:reaction", ...)
MessageRelay(s, ev, conversationId, messageId) ==
    /\ s \in connected
    /\ emitted' = <<ToRoom(RelayForward(ev), conversationId, messageId, "-",
                           RoomSockets(conversationId))>>
    /\ last' = Last(ev, s, conversationId, 0)
    /\ UNCHANGED <<connected, nextId, socketUserId, rooms, tables, timers>>

\* ---------------------------------------------------------- call signaling
CallEvents ==
    {"call:initiate", "call:answer", "call:ice-candidate", "call:reject", "call:end"}

\* The event each call handler forwards.
CallForward(ev) ==
    CASE ev = "call:initiate" -> "call:incoming"
      [] ev = "call:answer" -> "call:answered"
      [] ev = "call:ice-candidate" -> "call:ice-candidate"
      [] ev = "call:reject" -> "call:rejected"
      [] ev = "call:end" -> "call:ended"

\* callerId / senderId: socket.userId, attached by initiate and ice-candidate.
CallSender(s, ev) ==
    IF ev \in {"call:initiate", "call:ice-candidate"} THEN socketUserId[s] ELSE "-"

\* Mutant of CallEmits: the handler emits without testing the lookup.
CallEmits_NoLookup(s, ev, target) ==
    <<ToSocket(CallForward(ev),
               IF MapHas(userSockets, target) THEN userSockets[target] ELSE NoSocket,
               CallSender(s, ev), "-")>>

\* What a call handler emits for target id (receiverId, callerId, targetId).
CallEmits(s, ev, target) ==
    IF MapHas(userSockets, target)
    THEN <<ToSocket(CallForward(ev), userSockets[target], CallSender(s, ev), "-")>>
    ELSE <<>>

\* socket.on("call:initiate" | "call:answer" | "call:ice-candidate" |
\*           "call:reject" | "call:end", ...)
CallSignal(s, ev, target) ==
    /\ s \in connected
    /\ emitted' = CallEmits(s, ev, target)
    /\ last' = Last(ev, s, target, 0)
    /\ UNCHANGED <<connected, nextId, socketUserId, rooms, tables, timers>>

\* ---------------------------------------------------- disconnect, Sweeper
\* The three deletes of lines 43-45 and 317-319.
Remove(f, gone) == [x \in DOMAIN f \ gone |-> f[x]]

\* What the disconnect handler emits.
DisconnectEmits(s) ==
    IF socketUserId[s] # NoUser
    THEN <<ToAll("user:last-seen", s, socketUserId[s], "-"),
           ToAll("user:status", s, socketUserId[s], "offline")>>
    ELSE <<>>

\* Mutant of DisconnectGone: the handler also deletes every identity the
\* registry maps to the socket.
DisconnectGone_BySocket(s) ==
    (IF socketUserId[s] # NoUser THEN {socketUserId[s]} ELSE {})
    \cup {u \in DOMAIN userSockets : userSockets[u] = s}

\* The identities the disconnect handler of s deletes from the three maps.
DisconnectGone(s) == IF socketUserId[s] # NoUser THEN {socketUserId[s]} ELSE {}

\* Mutant of Disconnect: the handler clears the pending timers.
Disconnect_CancelsTimers(s) ==
    /\ s \in connected
    /\ connected' = connected \ {s}
    /\ socketUserId' = MapDelete(socketUserId, s)
    /\ rooms' = MapDelete(rooms, s)
    /\ userSockets' = Remove(userSockets, DisconnectGone(s))
    /\ onlineUsers' = Remove(onlineUsers, DisconnectGone(s))
    /\ userConversations' = Remove(userConversations, DisconnectGone(s))
    /\ emitted' = DisconnectEmits(s)
    /\ last' = Last("disconnect", s, socketUserId[s],
                    Cardinality(DisconnectGone(s) \cap DOMAIN userSockets))
    /\ timers' = <<>>
    /\ UNCHANGED <<nextId, pendingDeliveries>>

\* socket.on("disconnect", ...): socket.io has taken the socket out of every
\* room before the handler runs.  last.n: 1 if the registry held the
\* identity the handler deleted.
Disconnect(s) ==
    /\ s \in connected
    /\ connected' = connected \ {s}
    /\ socketUserId' = MapDelete(socketUserId, s)
    /\ rooms' = MapDelete(rooms, s)
    /\ userSockets' = Remove(userSockets, DisconnectGone(s))
    /\ onlineUsers' = Remove(onlineUsers, DisconnectGone(s))
    /\ userConversations' = Remove(userConversations, DisconnectGone(s))
    /\ emitted' = DisconnectEmits(s)
    /\ last' = Last("disconnect", s, socketUserId[s],
                    Cardinality(DisconnectGone(s) \cap DOMAIN userSockets))
    /\ UNCHANGED <<nextId, pendingDeliveries, timers>>

\* Mutant of IsStale: a record idle for exactly the threshold is stale.
IsStale_AtThreshold(idle) == idle >= STALE_TIMEOUT

\* Mutant of IsStale: the threshold is one interval late.
IsStale_Late(idle) == idle > STALE_TIMEOUT + CLEANUP_INTERVAL

\* Line 42, now - userData.lastSeen > STALE_TIMEOUT, for a record whose idle
\* time is idle.
IsStale(idle) == idle > STALE_TIMEOUT

\* The records a Sweeper run evicts, CLEANUP_INTERVAL after the previous run.
Stale ==
    {u \in DOMAIN onlineUsers : IsStale(onlineUsers[u].idle + CLEANUP_INTERVAL)}

\* Mutant of Sweeper: the membership set of an evicted record is kept.
Sweeper_KeepsMembership ==
    /\ onlineUsers' =
         [u \in DOMAIN onlineUsers \ Stale |->
            [onlineUsers[u] EXCEPT !.idle = @ + CLEANUP_INTERVAL]]
    /\ userSockets' = Remove(userSockets, Stale)
    /\ userConversations' = userConversations
    /\ emitted' = <<>>
    /\ last' = Last("sweep", NoSocket, "-", Cardinality(Stale))
    /\ UNCHANGED <<connected, nextId, socketUserId, rooms, pendingDeliveries,
                   timers>>

\* Mutant of Sweeper: a run also drops the ledger entries that await an
\* evicted identity.
Sweeper_ExpiresLedger ==
    /\ onlineUsers' =
         [u \in DOMAIN onlineUsers \ Stale |->
            [onlineUsers[u] EXCEPT !.idle = @ + CLEANUP_INTERVAL]]
    /\ userSockets' = Remove(userSockets, Stale)
    /\ userConversations' = Remove(userConversations, Stale)
    /\ pendingDeliveries' =
         IF Stale = {} THEN pendingDeliveries ELSE EmptyMap
    /\ emitted' = <<>>
    /\ last' = Last("sweep", NoSocket, "-", Cardinality(Stale))
    /\ UNCHANGED <<connected, nextId, socketUserId, rooms, timers>>

\* Mutant of Sweeper: the registry entry of an evicted record is kept.
Sweeper_KeepsRegistry ==
    /\ onlineUsers' =
         [u \in DOMAIN onlineUsers \ Stale |->
            [onlineUsers[u] EXCEPT !.idle = @ + CLEANUP_INTERVAL]]
    /\ userSockets' = userSockets
    /\ userConversations' = Remove(userConversations, Stale)
    /\ emitted' = <<>>
    /\ last' = Last("sweep", NoSocket, "-", Cardinality(Stale))
    /\ UNCHANGED <<connected, nextId, socketUserId, rooms, pendingDeliveries,
                   timers>>

\* The setInterval callback of lines 37-61: it runs CLEANUP_INTERVAL after
\* the previous run (or after start-up), so every record it keeps has grown
\* idle by that much.  last.n: cleaned.
Sweeper ==
    /\ onlineUsers' =
         [u \in DOMAIN onlineUsers \ Stale |->
            [onlineUsers[u] EXCEPT !.idle = @ + CLEANUP_INTERVAL]]
    /\ userSockets' = Remove(userSockets, Stale)
    /\ userConversations' = Remove(userConversations, Stale)
    /\ emitted' = <<>>
    /\ last' = Last("sweep", NoSocket, "-", Cardinality(Stale))
    /\ UNCHANGED <<connected, nextId, socketUserId, rooms, pendingDeliveries,
                   timers>>

\* ------------------------------------------------------- specifications
\* The handlers of the connections' events and the timer callback, with
\* conversation ids drawn from C and announced identities from U.
Handlers(C, U) ==
    \/ Connection
    \/ \E s \in connected, u \in U : UserOnline(s, u)
    \/ \E s \in connected : Ping(s)
    \/ \E s \in connected, c \in C : ConversationJoin(s, c)
    \/ \E s \in connected, c \in C : ConversationLeave(s, c)
    \/ \E s \in connected, data \in SendData :
          data.conversationId \in C /\ MessageSend(s, data)
    \/ TimerFire
    \/ \E s \in connected : Disconnect(s)

\* The whole relay.
Next ==
    \/ Handlers(Convs, Users)
    \/ Sweeper
    \/ \E s \in connected, ev \in CallEvents, u \in Users : CallSignal(s, ev, u)
    \/ \E s \in connected, ev \in StatusEvents, c \in Convs, m \in Msgs :
          MessageStatus(s, ev, c, m)
    \/ \E s \in connected, ids \in MarkReadLists, c \in Convs : MarkRead(s, ids, c)
    \/ \E s \in connected, ev \in RelayEvents, c \in Convs, m \in Msgs :
          MessageRelay(s, ev, c, m)

Spec == Init /\ [][Next]_vars

\* TLC checks the claims under the three specifications below, each the
\* relay with some of its inputs fixed.
\* Every handler and the Sweeper, over one conversation.
NextSweep ==
    \/ Handlers({"c1"}, Users)
    \/ Sweeper

SpecSweep == Init /\ [][NextSweep]_vars

\* Every handler and the Sweeper, over both conversations, B the one
\* identity that is announced (A is named by participants arrays only).
NextJoin ==
    \/ Handlers(Convs, {"B"})
    \/ Sweeper

SpecJoin == Init /\ [][NextJoin]_vars

\* Every handler and the Sweeper, over one conversation, under the event
\* loop's guarantee that a setTimeout callback whose delay has passed runs.
SpecTimers == SpecSweep /\ WF_vars(TimerFire)

\* Every handler and the Sweeper, over one conversation, beside the events
\* that only relay: the direct status events and call signaling.
NextRelay ==
    \/ NextSweep
    \/ \E s \in connected, ev \in StatusEvents, m \in Msgs :
          MessageStatus(s, ev, "c1", m)
    \/ \E s \in connected, ev \in CallEvents, u \in Users : CallSignal(s, ev, u)

SpecRelay == Init /\ [][NextRelay]_vars

\* Every handler, over one conversation, beside the events that relay a
\* status or a change of a message to the conversation group.
NextStatus ==
    \/ Handlers({"c1"}, Users)
    \/ \E s \in connected, ev \in StatusEvents, m \in Msgs :
          MessageStatus(s, ev, "c1", m)
    \/ \E s \in connected, ids \in MarkReadLists : MarkRead(s, ids, "c1")
    \/ \E s \in connected, ev \in RelayEvents, m \in Msgs :
          MessageRelay(s, ev, "c1", m)

SpecStatus == Init /\ [][NextStatus]_vars

\* Call signaling beside the handlers that write the tables.
NextCalls ==
    \/ Connection
    \/ \E s \in connected, u \in Users : UserOnline(s, u)
    \/ \E s \in connected, data \in SendData : MessageSend(s, data)
    \/ \E s \in connected, ev \in CallEvents, u \in Users : CallSignal(s, ev, u)
    \/ \E s \in connected : Disconnect(s)
    \/ Sweeper

SpecCalls == Init /\ [][NextCalls]_vars

\* ----------------------------------------------------------------- claims
LedgerHas(pd, c, m) == MapHas(pd, c) /\ MapHas(pd[c], m)
Awaiting(pd, c, m) == IF LedgerHas(pd, c, m) THEN pd[c][m] ELSE {}
Entries(pd) == {<<c, m>> \in Convs \X Msgs : LedgerHas(pd, c, m)}

\* How many emissions of em are message:status{m, delivered} to group c.
DeliveredCount(em, c, m) ==
    Cardinality({i \in 1..Len(em) :
        /\ em[i].ev = "message:status" /\ em[i].status = "delivered"
        /\ em[i].to = "room" /\ em[i].room = c /\ em[i].id = m})

Reconciles(l) == l.op \in {"user:online", "conversation:join"}

\* C1: a message:send of a message m that the ledger does not hold yet, in
\* conversation c with participants [a, b], from a's connection while b has
\* no registry entry, leaves the awaiting set of (c, m) at exactly {b}; and a
\* user:online of b that finds the awaiting set of (c, m) at {b} emits
\* exactly one message:status{m, delivered} to group c and removes the entry
\* (c, m), which leaves the ledger empty if it held nothing else.
C1_OfflineSendThenOnline ==
    [][/\ last'.op = "message:send" =>
            \A data \in SendData, a \in Users, b \in Users :
            ( /\ a # b /\ data.participants = <<a, b>>
              /\ socketUserId[last'.sock] = a
              /\ ~MapHas(userSockets, b)
              /\ ~LedgerHas(pendingDeliveries, data.conversationId, data.id)
              /\ MessageSend(last'.sock, data) )
            => /\ LedgerHas(pendingDeliveries', data.conversationId, data.id)
               /\ pendingDeliveries'[data.conversationId][data.id] = {b}
       /\ \A c \in Convs, m \in Msgs, b \in Users :
            ( /\ last'.op = "user:online" /\ last'.arg = b
              /\ Awaiting(pendingDeliveries, c, m) = {b} )
            => /\ DeliveredCount(emitted', c, m) = 1
               /\ ~LedgerHas(pendingDeliveries', c, m)
               /\ (Entries(pendingDeliveries) = {<<c, m>>}
                     => pendingDeliveries' = EmptyMap)
      ]_vars

\* C1 witness: B has just announced itself, the reconciliation emitted one
\* delivered status for m1 to c1 and the ledger is empty, while A's
\* connection is registered.
C1_Witness ==
    /\ last.op = "user:online" /\ last.arg = "B"
    /\ DeliveredCount(emitted, "c1", "m1") = 1
    /\ pendingDeliveries = EmptyMap
    /\ MapHas(userSockets, "A") /\ userSockets["A"] \in connected
    /\ userSockets["A"] # last.sock

\* C2 as stated: a reconciliation emits a delivered status for a message
\* only by the removal that empties its awaiting set, so a message it
\* reports is gone from the ledger.
C2_DeliveredOnlyWhenEmptied ==
    [][Reconciles(last') =>
         \A c \in Convs, m \in Msgs :
            DeliveredCount(emitted', c, m) > 0
              => ~LedgerHas(pendingDeliveries', c, m)]_vars

\* The identity a reconciliation removes, and the conversations it scans.
ReconciledUser(l) == IF l.op = "user:online" THEN l.arg ELSE socketUserId[l.sock]
Scanned(l, c) == l.op = "user:online" \/ l.arg = c

\* C2 amended: a reconciliation emits exactly one delivered status for every
\* message from whose awaiting set it removes the user, whether or not other
\* users remain in the set, and none for any other message; the entry is
\* deleted exactly when the removal empties the set.
C2_DeliveredPerRemoval ==
    [][Reconciles(last') =>
         \A c \in Convs, m \in Msgs :
            LET u == ReconciledUser(last')
                removed == Scanned(last', c) /\ u \in Awaiting(pendingDeliveries, c, m)
            IN /\ DeliveredCount(emitted', c, m) = IF removed THEN 1 ELSE 0
               /\ removed =>
                    Awaiting(pendingDeliveries', c, m)
                      = Awaiting(pendingDeliveries, c, m) \ {u}
               /\ ~removed =>
                    Awaiting(pendingDeliveries', c, m)
                      = Awaiting(pendingDeliveries, c, m)
      ]_vars

\* C2 witness: a user:online has emitted a delivered status for a message
\* that is still in the ledger, awaited by another user.
C2_Witness ==
    /\ last.op = "user:online"
    /\ \E c \in Convs, m \in Msgs :
         /\ DeliveredCount(emitted, c, m) = 1
         /\ LedgerHas(pendingDeliveries, c, m)
         /\ pendingDeliveries[c][m] # {}

\* C3: an identity has a registry entry iff it has a presence record.
C3_RegistryIffPresence == DOMAIN userSockets = DOMAIN onlineUsers

\* C3 witness: a Sweeper run has evicted a record while another identity
\* keeps its registry entry and its presence record.
C3_Witness ==
    /\ last.op = "sweep" /\ last.n >= 1
    /\ \E u \in Users : MapHas(userSockets, u) /\ MapHas(onlineUsers, u)
    /\ \E u \in Users : ~MapHas(userSockets, u) /\ ~MapHas(onlineUsers, u)

\* C4: after a Sweeper run, every identity whose record was idle for more
\* than STALE_TIMEOUT at the time of the run has no presence record, no
\* registry entry and no membership set.
C4_SweeperCascade ==
    [][last'.op = "sweep" =>
         \A u \in DOMAIN onlineUsers :
            onlineUsers[u].idle + CLEANUP_INTERVAL > STALE_TIMEOUT
              => /\ ~MapHas(onlineUsers', u)
                 /\ ~MapHas(userSockets', u)
                 /\ ~MapHas(userConversations', u)]_vars

\* C4 witness: a Sweeper run has evicted the identity of a socket that is
\* still connected; the identity is in none of the three maps.
C4_Witness ==
    /\ last.op = "sweep" /\ last.n >= 1
    /\ \E s \in connected :
         /\ socketUserId[s] # NoUser
         /\ ~MapHas(onlineUsers, socketUserId[s])
         /\ ~MapHas(userSockets, socketUserId[s])
         /\ ~MapHas(userConversations, socketUserId[s])

\* Both a and b are registered, a on socket s, b on a connected socket, and
\* both sockets are subscribed to conversation c.
BothOnlineInRoom(s, a, b, c) ==
    /\ a # b /\ socketUserId[s] = a
    /\ MapHas(userSockets, a) /\ userSockets[a] = s
    /\ MapHas(userSockets, b) /\ userSockets[b] \in connected
    /\ c \in rooms[s] /\ c \in rooms[userSockets[b]]

\* C5: a message:send from a with participants [a, b], both registered and
\* both connections subscribed to the group, schedules exactly one delayed
\* delivered status for that message, and the timer callback emits it once.
C5_OneDelayedStatus ==
    [][/\ last'.op = "message:send" =>
            \A data \in SendData, a \in Users, b \in Users :
            ( /\ data.participants = <<a, b>>
              /\ BothOnlineInRoom(last'.sock, a, b, data.conversationId)
              /\ MessageSend(last'.sock, data) )
            => timers' = Append(timers, [conversationId |-> data.conversationId,
                                         messageId |-> data.id])
       /\ (last'.op = "timeout" /\ timers # <<>>) =>
            /\ timers' = Tail(timers)
            /\ Len(emitted') = 1
            /\ DeliveredCount(emitted', Head(timers).conversationId,
                              Head(timers).messageId) = 1
      ]_vars

\* C5 witness: A's connection has just sent a message with two participants
\* to c1 while A and B are registered and subscribed to c1; one timer is
\* pending, for that message.
C5_Witness ==
    /\ last.op = "message:send" /\ last.arg = "c1" /\ last.n = 2
    /\ BothOnlineInRoom(last.sock, "A", "B", "c1")
    /\ timers = <<[conversationId |-> "c1", messageId |-> "m1"]>>
    /\ pendingDeliveries = EmptyMap

\* One conversation's part of the ledger.
LedgerOf(pd, c) == IF MapHas(pd, c) THEN pd[c] ELSE EmptyMap

\* C6: a conversation:join(c) from a connection of user u leaves the ledger
\* entries of every other conversation unchanged, u's included, emits a
\* status to no other group, and leaves u in no awaiting set of c.
C6_JoinScopedToConversation ==
    [][last'.op = "conversation:join" =>
         /\ \A c \in Convs \ {last'.arg} :
              LedgerOf(pendingDeliveries', c) = LedgerOf(pendingDeliveries, c)
         /\ \A i \in 1..Len(emitted') :
              emitted'[i].to = "room" /\ emitted'[i].room = last'.arg
         /\ \A m \in Msgs :
              socketUserId[last'.sock]
                \notin Awaiting(pendingDeliveries', last'.arg, m)]_vars

\* C6 witness: a join has emitted a delivered status for its conversation
\* while the joining user is still awaited in the other conversation.
C6_Witness ==
    /\ last.op = "conversation:join"
    /\ emitted # <<>>
    /\ \E c \in Convs \ {last.arg}, m \in Msgs :
         socketUserId[last.sock] \in Awaiting(pendingDeliveries, c, m)

\* C7 as stated: the membership set of a registered user, whose registered
\* connection is connected and identifies as that user, holds only
\* conversations that this connection is subscribed to.
C7_MembershipOfCurrentSession ==
    \A u \in DOMAIN userSockets \cap DOMAIN userConversations :
        (userSockets[u] \in connected /\ socketUserId[userSockets[u]] = u)
          => userConversations[u] \subseteq rooms[userSockets[u]]

\* C8: a user:online(u) from socket s leaves the registry mapping u to s,
\* whatever it mapped u to before, and nothing but a user:online(u) from s
\* makes the registry map u to s: an entry is the handle of the connection
\* that issued the most recent user:online for its identity.
C8_LastWriterWins ==
    [][/\ last'.op = "user:online" =>
            /\ MapHas(userSockets', last'.arg)
            /\ userSockets'[last'.arg] = last'.sock
       /\ \A u \in DOMAIN userSockets' :
            (~MapHas(userSockets, u) \/ userSockets[u] # userSockets'[u])
              => /\ last'.op = "user:online"
                 /\ last'.arg = u
                 /\ last'.sock = userSockets'[u]
      ]_vars

\* C8 witness: a user:online has overwritten the entry of another socket,
\* which is still connected.
C8_Witness ==
    /\ last.op = "user:online" /\ last.n = 1
    /\ userSockets[last.arg] = last.sock
    /\ \E s \in connected \ {last.sock} : socketUserId[s] = last.arg

\* C9: a call event whose target has no registry entry emits nothing and
\* leaves the four tables unchanged.
C9_CallToUnregisteredDropped ==
    [][(last'.op \in CallEvents /\ ~MapHas(userSockets, last'.arg)) =>
         /\ emitted' = <<>>
         /\ tables' = tables]_vars

\* C9 witness: a call event for an unregistered target has run and emitted
\* nothing, with a registered user and a pending delivery in the tables.
C9_Witness ==
    /\ last.op \in CallEvents
    /\ ~MapHas(userSockets, last.arg)
    /\ emitted = <<>>
    /\ userSockets # EmptyMap
    /\ pendingDeliveries # EmptyMap

\* Is u in none of the registry, the presence store and the directory?
Gone(u) ==
    /\ ~MapHas(userSockets, u)
    /\ ~MapHas(onlineUsers, u)
    /\ ~MapHas(userConversations, u)

\* C10: a conversation:leave(c) repeated by the same connection, a
\* disconnect for an identity that is already gone, and a Sweeper run with
\* respect to an identity that is already gone, leave the four tables (for
\* the Sweeper: that identity's part of them, and the ledger) unchanged.
C10_SecondRemovalNoOp ==
    [][/\ ( /\ last.op = "conversation:leave"
            /\ last'.op = "conversation:leave"
            /\ last'.sock = last.sock /\ last'.arg = last.arg )
          => tables' = tables /\ rooms' = rooms
       /\ ( /\ last'.op = "disconnect"
            /\ last'.arg # NoUser
            /\ Gone(last'.arg) )
          => tables' = tables
       /\ last'.op = "sweep" =>
            /\ pendingDeliveries' = pendingDeliveries
            /\ \A u \in Users : Gone(u) => Gone(u)'
      ]_vars

\* C10 witness: a connection whose identity the Sweeper or an earlier
\* disconnect had removed has disconnected, while another identity is still
\* in the tables.
C10_Witness ==
    /\ last.op = "disconnect" /\ last.arg # NoUser /\ last.n = 0
    /\ userSockets # EmptyMap
    /\ userConversations # EmptyMap

\* Is a connection other than s that identifies as p subscribed to group c?
Viewing(s, p, c) == \E v \in RoomSockets(c) \ {s} : socketUserId[v] = p

\* C11 as stated: a message:send that finds no participant other than the
\* sender reachable (none registered, none viewing the conversation)
\* schedules no delayed status and emits no delivered status, whichever
\* other connections are subscribed to the group.
C11_NoStatusWhenUnreachable ==
    [][last'.op = "message:send" =>
         \A data \in SendData :
            ( /\ \A p \in Range(data.participants) \ {socketUserId[last'.sock]} :
                    /\ ~MapHas(userSockets, p)
                    /\ ~Viewing(last'.sock, p, data.conversationId)
              /\ MessageSend(last'.sock, data) )
            => /\ timers' = timers
               /\ DeliveredCount(emitted', data.conversationId, data.id) = 0
      ]_vars

\* C12: a message:send for message m in conversation c adds to the awaiting
\* set of (c, m) exactly the participants, other than the sender, that have
\* no registry entry, and changes no other entry; it creates no entry when
\* there is no such participant.
C12_AwaitingExactlyUnregistered ==
    [][last'.op = "message:send" =>
         \A data \in SendData :
            MessageSend(last'.sock, data) =>
              LET added == {p \in Range(data.participants) :
                              /\ p # socketUserId[last'.sock]
                              /\ ~MapHas(userSockets, p)}
              IN /\ \A c \in Convs, m \in Msgs :
                      Awaiting(pendingDeliveries', c, m) =
                        IF c = data.conversationId /\ m = data.id
                        THEN Awaiting(pendingDeliveries, c, m) \cup added
                        ELSE Awaiting(pendingDeliveries, c, m)
                 /\ added = {} => pendingDeliveries' = pendingDeliveries
                 /\ added # {} =>
                      LedgerHas(pendingDeliveries', data.conversationId, data.id)
      ]_vars

\* C12 witness: A's registered connection has sent a message with two
\* participants while B had no registry entry, and the one ledger entry
\* awaits B alone.
C12_Witness ==
    /\ last.op = "message:send" /\ last.n = 2
    /\ socketUserId[last.sock] = "A"
    /\ MapHas(userSockets, "A") /\ userSockets["A"] = last.sock
    /\ ~MapHas(userSockets, "B")
    /\ Entries(pendingDeliveries) = {<<last.arg, "m1">>}
    /\ pendingDeliveries[last.arg]["m1"] = {"B"}

\* C13: the ledger holds no message entry with an empty awaiting set and no
\* conversation entry without messages.
C13_NoEmptyLedgerEntries ==
    \A c \in DOMAIN pendingDeliveries :
        /\ DOMAIN pendingDeliveries[c] # {}
        /\ \A m \in DOMAIN pendingDeliveries[c] : pendingDeliveries[c][m] # {}

\* C13 witness: a conversation:join has removed the last awaiting user of
\* the last message of its conversation, whose entry is gone, while the
\* other conversation still has an entry.
C13_Witness ==
    /\ last.op = "conversation:join"
    /\ DeliveredCount(emitted, last.arg, "m1") = 1
    /\ ~MapHas(pendingDeliveries, last.arg)
    /\ pendingDeliveries # EmptyMap

\* The callback message:send schedules for message m of conversation c.
TimerOf(c, m) == [conversationId |-> c, messageId |-> m]

\* C14: a delayed status leaves the pending timers only by its callback
\* running, which emits that one delivered status to the conversation
\* group (no disconnect, leave or Sweeper run cancels it, and message:send
\* only appends); and a status that is pending is eventually emitted.
C14_ScheduledStatusEmitted ==
    /\ [][timers' # timers =>
            \/ /\ last'.op = "message:send"
               /\ \E m \in Msgs : timers' = Append(timers, TimerOf(last'.arg, m))
            \/ /\ last'.op = "timeout"
               /\ timers # <<>> /\ timers' = Tail(timers)
               /\ last'.arg = Head(timers).conversationId
               /\ Len(emitted') = 1
               /\ DeliveredCount(emitted', Head(timers).conversationId,
                                 Head(timers).messageId) = 1
         ]_vars
    /\ \A c \in Convs, m \in Msgs :
         (TimerOf(c, m) \in Range(timers))
           ~> (last.op = "timeout" /\ last.arg = c
               /\ DeliveredCount(emitted, c, m) = 1)

\* C14 witness: the callback has emitted the delivered status of m1 after
\* every connection, the sender's included, has disconnected.
C14_Witness ==
    /\ last.op = "timeout" /\ last.arg = "c1"
    /\ DeliveredCount(emitted, "c1", "m1") = 1
    /\ connected = {}
    /\ nextId \notin SocketIds

\* Is c in the membership set of u?
Member(uc, u, c) == MapHas(uc, u) /\ c \in uc[u]

\* C15 as stated: after a conversation:join(c) from a connection that has
\* announced u, c is in u's membership set and the connection is subscribed
\* to c; after a conversation:leave(c), neither; and for every connection
\* that has announced a user, membership of c in that user's set agrees
\* with the connection's subscription to c.
C15_MembershipAgreesWithSubscription ==
    /\ [][/\ (last'.op = "conversation:join" /\ socketUserId[last'.sock] # NoUser)
              => /\ Member(userConversations', socketUserId[last'.sock], last'.arg)
                 /\ last'.arg \in rooms'[last'.sock]
          /\ (last'.op = "conversation:leave" /\ socketUserId[last'.sock] # NoUser)
              => /\ ~Member(userConversations', socketUserId[last'.sock], last'.arg)
                 /\ last'.arg \notin rooms'[last'.sock]
         ]_vars
    /\ [](\A s \in connected :
            socketUserId[s] # NoUser =>
              \A c \in Convs :
                 Member(userConversations, socketUserId[s], c) <=> c \in rooms[s])

\* How many emissions of em are a message:new for m addressed to socket h
\* directly, and how many are a broadcast of it to group c that reaches h.
DirectNew(em, h, m) ==
    Cardinality({i \in 1..Len(em) :
        /\ em[i].ev = "message:new" /\ em[i].to = "socket"
        /\ em[i].sock = h /\ em[i].id = m})
GroupNew(em, c, m, h) ==
    Cardinality({i \in 1..Len(em) :
        /\ em[i].ev = "message:new" /\ em[i].to = "room"
        /\ em[i].room = c /\ em[i].id = m /\ h \in em[i].rcpt})

\* The positions of the participants array at which socket s of the sender
\* finds a participant other than the sender registered on socket h.
Listings(s, data, h) ==
    {i \in 1..Len(data.participants) :
        /\ data.participants[i] # socketUserId[s]
        /\ MapHas(userSockets, data.participants[i])
        /\ userSockets[data.participants[i]] = h}

\* C16 as stated: one message:send addresses message:new to the registered
\* connection of every registered participant other than the sender exactly
\* once, by the group broadcast or by one direct emission.
C16_NewExactlyOnce ==
    [][last'.op = "message:send" =>
         \A data \in SendData :
            MessageSend(last'.sock, data) =>
              \A h \in SocketIds :
                 Listings(last'.sock, data, h) # {} =>
                   GroupNew(emitted', data.conversationId, data.id, h)
                     + DirectNew(emitted', h, data.id) = 1
      ]_vars

\* C16 amended: one message:send emits one group broadcast, and for the
\* registered connection h of a participant other than the sender: if h is
\* subscribed to the group, the broadcast reaches it and nothing is
\* addressed to it directly; otherwise the broadcast does not reach it and
\* one direct message:new is addressed to it for every position of the
\* participants array that names a participant registered on h.  Nothing
\* else is emitted.
C16_NewOncePerListing ==
    [][last'.op = "message:send" =>
         \A data \in SendData :
            MessageSend(last'.sock, data) =>
              /\ \A h \in SocketIds :
                    Listings(last'.sock, data, h) # {} =>
                      IF h \in RoomSockets(data.conversationId)
                      THEN /\ GroupNew(emitted', data.conversationId, data.id, h) = 1
                           /\ DirectNew(emitted', h, data.id) = 0
                      ELSE /\ GroupNew(emitted', data.conversationId, data.id, h) = 0
                           /\ DirectNew(emitted', h, data.id)
                                = Cardinality(Listings(last'.sock, data, h))
              /\ \A h \in SocketIds :
                    Listings(last'.sock, data, h) = {} =>
                      DirectNew(emitted', h, data.id) = 0
              /\ Cardinality({i \in 1..Len(emitted') : emitted'[i].to = "room"}) = 1
              /\ \A i \in 1..Len(emitted') : emitted'[i].ev = "message:new"
      ]_vars

\* C16 witness: a send whose participants array names the same registered
\* user twice has addressed two direct message:new to that user's
\* connection, which is connected and not subscribed to the group.
C16_Witness ==
    /\ last.op = "message:send" /\ last.n = 2
    /\ \E u \in DOMAIN userSockets :
         /\ socketUserId[last.sock] # u
         /\ userSockets[u] \in connected \ {last.sock}
         /\ socketUserId[userSockets[u]] = u
         /\ last.arg \notin rooms[userSockets[u]]
         /\ DirectNew(emitted, userSockets[u], "m1") = 2
         /\ GroupNew(emitted, last.arg, "m1", userSockets[u]) = 0

\* C17: no user that has a registry entry is in an awaiting set of the
\* ledger, in any conversation.
C17_RegisteredNotAwaited ==
    \A u \in DOMAIN userSockets, c \in Convs, m \in Msgs :
        u \notin Awaiting(pendingDeliveries, c, m)

\* C17 witness: a user:online has removed its user from awaiting sets of
\* both conversations, and the ledger still holds an entry awaiting the
\* other, unregistered, user.
C17_Witness ==
    /\ last.op = "user:online"
    /\ MapHas(userSockets, last.arg)
    /\ \A c \in Convs : DeliveredCount(emitted, c, "m1") = 1
    /\ \E c \in Convs, u \in Users \ DOMAIN userSockets :
         u \in Awaiting(pendingDeliveries, c, "m1")

RelayOps == StatusEvents \cup CallEvents
RemovalOps == {"disconnect", "sweep", "conversation:leave", "ping", "timeout",
               "connection"}

\* C19: an awaiting user u leaves the awaiting set of (c, m) only by a
\* user:online(u) or by a conversation:join(c) from a connection identified
\* as u; disconnect, Sweeper runs, conversation:leave, ping, the timer
\* callback, the direct status events and the call events leave the ledger
\* unchanged, so an entry is never dropped for age.
C19_LedgerNeverExpires ==
    [][/\ \A c \in Convs, m \in Msgs, u \in Users :
            ( /\ u \in Awaiting(pendingDeliveries, c, m)
              /\ u \notin Awaiting(pendingDeliveries', c, m) )
            => \/ last'.op = "user:online" /\ last'.arg = u
               \/ /\ last'.op = "conversation:join" /\ last'.arg = c
                  /\ socketUserId[last'.sock] = u
       /\ last'.op \in RelayOps \cup RemovalOps
            => pendingDeliveries' = pendingDeliveries
      ]_vars

\* C19 witness: a connection has disconnected whose user, evicted earlier
\* by the Sweeper, is awaited by a ledger entry; the entry is still there.
C19_Witness ==
    /\ last.op = "disconnect" /\ last.arg # NoUser /\ last.n = 0
    /\ \E c \in Convs, m \in Msgs :
         last.arg \in Awaiting(pendingDeliveries, c, m)

\* What an emission tells its recipients.
Notice(e) == <<e.ev, e.id, e.status>>

\* C20 as stated: a Sweeper run that evicts the user of connection s, and
\* no other user, leaves the registry, the presence store's users, the
\* directory and the ledger as the disconnect handler of s would leave
\* them, and emits the notifications that handler would emit
\* (user:last-seen and user:status offline for the user).
C20_SweepLikeDisconnect ==
    [][last'.op = "sweep" =>
         \A s \in connected :
            (socketUserId[s] # NoUser /\ Stale = {socketUserId[s]}) =>
              /\ userSockets' = Remove(userSockets, DisconnectGone(s))
              /\ DOMAIN onlineUsers' = DOMAIN Remove(onlineUsers, DisconnectGone(s))
              /\ userConversations' = Remove(userConversations, DisconnectGone(s))
              /\ pendingDeliveries' = pendingDeliveries
              /\ [i \in 1..Len(emitted') |-> Notice(emitted'[i])]
                   = [i \in 1..Len(DisconnectEmits(s)) |->
                        Notice(DisconnectEmits(s)[i])]
      ]_vars

\* C20 amended: a Sweeper run that evicts the user of connection s, and no
\* other user, leaves the registry, the presence store's users, the
\* directory and the ledger as the disconnect handler of s would leave
\* them, but emits nothing: no user:last-seen and no user:status offline
\* tells the clients, and the connection stays connected, subscribed and
\* identified.
C20_SweepRemovesLikeDisconnect ==
    [][last'.op = "sweep" =>
         /\ emitted' = <<>>
         /\ connected' = connected /\ socketUserId' = socketUserId /\ rooms' = rooms
         /\ \A s \in connected :
              (socketUserId[s] # NoUser /\ Stale = {socketUserId[s]}) =>
                /\ userSockets' = Remove(userSockets, DisconnectGone(s))
                /\ DOMAIN onlineUsers' = DOMAIN Remove(onlineUsers, DisconnectGone(s))
                /\ userConversations' = Remove(userConversations, DisconnectGone(s))
                /\ pendingDeliveries' = pendingDeliveries
      ]_vars

\* C20 witness: a Sweeper run has evicted one user, whose connection is
\* still connected and subscribed to a conversation, has emitted nothing,
\* and has kept the other user's entries.
C20_Witness ==
    /\ last.op = "sweep" /\ last.n = 1
    /\ emitted = <<>>
    /\ \E s \in connected :
         /\ socketUserId[s] # NoUser /\ Gone(socketUserId[s])
         /\ rooms[s] # {}
    /\ userSockets # EmptyMap /\ userConversations # EmptyMap

\* C21: a messages:mark-read with the ids ids for conversation c emits one
\* message:status{read} per element of ids, in the order of ids, to group c,
\* then one conversation:unread-updated to group c, and nothing else, also
\* when ids is empty; and like message:delivered, message:read, edit, delete
\* and reaction it changes none of the four tables.
C21_MarkReadEmissions ==
    [][/\ last'.op = "messages:mark-read" =>
            \A ids \in MarkReadLists :
               MarkRead(last'.sock, ids, last'.arg) =>
                 /\ Len(emitted') = Len(ids) + 1
                 /\ \A i \in 1..Len(ids) :
                      /\ emitted'[i].ev = "message:status"
                      /\ emitted'[i].status = "read"
                      /\ emitted'[i].id = ids[i]
                      /\ emitted'[i].to = "room" /\ emitted'[i].room = last'.arg
                 /\ emitted'[Len(ids) + 1].ev = "conversation:unread-updated"
                 /\ emitted'[Len(ids) + 1].to = "room"
                 /\ emitted'[Len(ids) + 1].room = last'.arg
       /\ last'.op \in StatusEvents \cup RelayEvents \cup {"messages:mark-read"}
            => tables' = tables
      ]_vars

\* C21 witness: a mark-read of m2 then m1 has emitted their two read
\* statuses in that order and then the unread-count notice, while the
\* registry and the ledger hold entries.
C21_Witness ==
    /\ last.op = "messages:mark-read" /\ last.n = 2
    /\ Len(emitted) = 3
    /\ emitted[1].id = "m2" /\ emitted[2].id = "m1"
    /\ emitted[3].ev = "conversation:unread-updated"
    /\ userSockets # EmptyMap
    /\ pendingDeliveries # EmptyMap

\* Does em tell the clients that u went offline?
SaysOffline(em, u) ==
    \E i \in 1..Len(em) :
        em[i].ev = "user:status" /\ em[i].id = u /\ em[i].status = "offline"

\* C22 as stated: when a connection that announced u disconnects after
\* another connection, still connected, has announced u and holds u's
\* registry entry, u keeps that registry entry, its presence record and its
\* membership set, and no user:status offline is broadcast for u.
C22_TakeoverSurvivesLateDisconnect ==
    [][\A u \in Users :
         ( /\ last'.op = "disconnect" /\ last'.arg = u
           /\ MapHas(userSockets, u)
           /\ userSockets[u] # last'.sock
           /\ userSockets[u] \in connected
           /\ socketUserId[userSockets[u]] = u
           /\ MapHas(onlineUsers, u) /\ MapHas(userConversations, u) )
         => /\ MapHas(userSockets', u) /\ userSockets'[u] = userSockets[u]
            /\ MapHas(onlineUsers', u)
            /\ MapHas(userConversations', u)
            /\ ~SaysOffline(emitted', u)
      ]_vars

\* C23 as stated: every registry entry u -> h names a connection h that is
\* connected, whose announced identity is u, and that is the socketId of
\* u's presence record.
C23_RegistryNamesLiveOwner ==
    \A u \in DOMAIN userSockets :
        /\ userSockets[u] \in connected
        /\ socketUserId[userSockets[u]] = u
        /\ MapHas(onlineUsers, u)
        /\ onlineUsers[u].socketId = userSockets[u]

\* C24 as stated: a message:send that schedules a delayed status has sent
\* message:new to at least one connected connection other than the
\* sender's.
C24_DeliveredMeansSomeoneReceived ==
    [][(last'.op = "message:send" /\ timers' # timers) =>
         \E i \in 1..Len(emitted') :
            /\ emitted'[i].ev = "message:new"
            /\ emitted'[i].rcpt \ {last'.sock} # {}
      ]_vars

====
